---- MODULE Spec2Model ----
(***************************************************************************)
(* AtomicList (src/src/atomic_list.rs): a lock-free list with a CAS-retry  *)
(* push, an ownership-consuming into_iter() and a Drop that frees the      *)
(* chain.  The heap is explicit: a node address is an index into `heap`,   *)
(* 0 is the null pointer, and every deallocation is counted per node.      *)
(***************************************************************************)
EXTENDS Integers, Sequences, FiniteSets

\* ---- bounds of the model ------------------------------------------------
NThreads == 2       \* threads holding a shared handle to the list
MaxNodes == 3       \* push calls (Box::new allocations) in one run
NValues == 2        \* element values a push may be given
MaxRetries == 2     \* the CAS-failure count of one push saturates here
MaxNoneCalls == 2   \* next() calls observed after the sequence is exhausted

Threads == 1..NThreads
Values == 1..NValues
\* ptr::null_mut()
Null == 0

VARIABLES
    head,       \* AtomicList.0 : AtomicPtr<Node<T>>
    heap,       \* the allocated Box<Node<T>>s: address |-> [value, next, frees]
    pc,         \* position of each thread inside push
    node,       \* push: `node`, the thread's own Box
    current,    \* push: `current`, the expected head
    list,       \* lifecycle of the AtomicList value
    it,         \* AtomicListIterator.0 : AtomicPtr<Node<T>>
    iter,       \* lifecycle of the AtomicListIterator value
    fails,      \* history: CAS failures so far of each thread's push in flight
    retried,    \* history: nodes linked after MaxRetries or more CAS failures
    allocBy,    \* history: the thread whose push allocated each node
    linked,     \* history: the nodes in the order in which their CAS succeeded
    pushed,     \* history: per thread, the values of its returned pushes
    snapshot,   \* history: the addresses of the chain detached by into_iter, head first
    yielded,    \* history: what next() returned as Some: the value, and the node it came from
    nones,      \* history: number of next() calls that returned None
    dropDepth   \* history: deepest nesting of drop calls reached so far

vars == <<head, heap, pc, node, current, list, it, iter, fails, retried, allocBy,
          linked, pushed, snapshot, yielded, nones, dropDepth>>

pushVars == <<pc, node, current>>
iterVars == <<it, iter, snapshot, yielded, nones>>

Max(a, b) == IF a >= b THEN a ELSE b
Min(a, b) == IF a <= b THEN a ELSE b

\* ---- pointers and ownership ---------------------------------------------

\* Box::new(Node { value: value, next: None })
NewNode(v) == [value |-> v, next |-> Null, frees |-> 0]

\* deallocation of one Box<Node<T>>
Dealloc(h, p) == [h EXCEPT ![p].frees = @ + 1]

\* a drop that frees the first box and forgets the rest of the chain
RECURSIVE drop_NodePtr_shallow(_, _, _)
drop_NodePtr_shallow(p, h, d) ==
    IF p = Null
    THEN [heap |-> h, depth |-> d]
    ELSE [heap |-> Dealloc(h, p), depth |-> d + 1]

\* The drop glue of NodePtr<T> = Option<Box<Node<T>>>: dropping a Box<Node>
\* first drops the Node's fields, among them `next`, and then frees the box.
\* d is the nesting depth of the call; the result carries the deepest one.
\* (The test on Len(h) ends the walk if the links should ever form a cycle.)
RECURSIVE drop_NodePtr(_, _, _)
drop_NodePtr(p, h, d) ==
    IF p = Null \/ d > Len(h)
    THEN [heap |-> h, depth |-> d]
    ELSE LET inner == drop_NodePtr(h[p].next, h, d + 1)
         IN  [heap |-> Dealloc(inner.heap, p), depth |-> inner.depth]

\* replace_forget that leaves the link as it was
replace_forget_keep(h, n, cur) == h

\* a plain assignment in place of replace_forget: the old link is dropped
replace_drop(h, n, cur) == [drop_NodePtr(h[n].next, h, 0).heap EXCEPT ![n].next = cur]

\* replace_forget given the node's own address as the new link
replace_forget_self(h, n, cur) == [h EXCEPT ![n].next = n]

\* replace_forget(&mut node.next, from_raw(current)): the old link is
\* forgotten, not dropped
replace_forget(h, n, cur) == [h EXCEPT ![n].next = cur]

\* The addresses reached from p through next links, p first.
RECURSIVE ChainFrom(_, _, _)
ChainFrom(p, h, fuel) ==
    IF p = Null \/ fuel = 0 THEN <<>>
    ELSE <<p>> \o ChainFrom(h[p].next, h, fuel - 1)

Chain(p, h) == ChainFrom(p, h, Len(h))

ValuesOf(addrs, h) == [i \in 1..Len(addrs) |-> h[addrs[i]].value]

Reverse(s) == [i \in 1..Len(s) |-> s[Len(s) + 1 - i]]

\* number of positions of s that hold x
Count(x, s) == Cardinality({i \in 1..Len(s) : s[i] = x})

\* a constructor that starts the list with a dummy node
InitDummy ==
    /\ head = 1
    /\ heap = <<[value |-> 1, next |-> Null, frees |-> 0]>>
    /\ pc = [t \in Threads |-> "idle"]
    /\ node = [t \in Threads |-> Null]
    /\ current = [t \in Threads |-> Null]
    /\ list = "shared"
    /\ it = Null
    /\ iter = "none"
    /\ fails = [t \in Threads |-> 0]
    /\ retried = {}
    /\ allocBy = <<>>
    /\ linked = <<>>
    /\ pushed = [t \in Threads |-> <<>>]
    /\ snapshot = <<>>
    /\ yielded = <<>>
    /\ nones = 0
    /\ dropDepth = 0

\* ---- AtomicList::new ----------------------------------------------------
Init ==
    /\ head = Null
    /\ heap = <<>>
    /\ pc = [t \in Threads |-> "idle"]
    /\ node = [t \in Threads |-> Null]
    /\ current = [t \in Threads |-> Null]
    /\ list = "shared"
    /\ it = Null
    /\ iter = "none"
    /\ fails = [t \in Threads |-> 0]
    /\ retried = {}
    /\ allocBy = <<>>
    /\ linked = <<>>
    /\ pushed = [t \in Threads |-> <<>>]
    /\ snapshot = <<>>
    /\ yielded = <<>>
    /\ nones = 0
    /\ dropDepth = 0

\* ---- AtomicList::push ---------------------------------------------------

\* The threads run the same code and differ in name only: they are numbered
\* in the order of their first push call.
FirstPushInOrder(t) == t = 1 \/ \E n \in DOMAIN allocBy : allocBy[n] = t - 1

\* lines 66-70: allocate the node, load head, link the node to the loaded
\* head.  The allocation and the link touch only the thread's private node,
\* so they are taken together with the load, the one shared access.
PushStart(t, v) ==
    /\ list = "shared"
    /\ pc[t] = "idle"
    /\ Len(heap) < MaxNodes
    /\ FirstPushInOrder(t)
    /\ heap' = replace_forget(Append(heap, NewNode(v)), Len(heap) + 1, head)
    /\ allocBy' = Append(allocBy, t)
    /\ node' = [node EXCEPT ![t] = Len(heap) + 1]
    /\ current' = [current EXCEPT ![t] = head]
    /\ pc' = [pc EXCEPT ![t] = "cas"]
    /\ UNCHANGED <<head, list, fails, retried, linked, pushed, dropDepth>>
    /\ UNCHANGED iterVars

\* a plain store in place of the compare-and-swap
CasOkStore(t) ==
    /\ pc[t] = "cas"
    /\ head' = node[t]
    /\ pushed' = [pushed EXCEPT ![t] = Append(@, heap[node[t]].value)]
    /\ linked' = Append(linked, node[t])
    /\ pc' = [pc EXCEPT ![t] = "idle"]
    /\ node' = [node EXCEPT ![t] = Null]
    /\ current' = [current EXCEPT ![t] = Null]
    /\ fails' = [fails EXCEPT ![t] = 0]
    /\ retried' = IF fails[t] = MaxRetries THEN retried \cup {node[t]} ELSE retried
    /\ UNCHANGED <<heap, list, allocBy, dropDepth>>
    /\ UNCHANGED iterVars

\* lines 71-75: compare_exchange_weak succeeds, mem::forget(node), return
CasOk(t) ==
    /\ pc[t] = "cas"
    /\ head = current[t]
    /\ head' = node[t]
    /\ pushed' = [pushed EXCEPT ![t] = Append(@, heap[node[t]].value)]
    /\ linked' = Append(linked, node[t])
    /\ pc' = [pc EXCEPT ![t] = "idle"]
    /\ node' = [node EXCEPT ![t] = Null]
    /\ current' = [current EXCEPT ![t] = Null]
    /\ fails' = [fails EXCEPT ![t] = 0]
    /\ retried' = IF fails[t] = MaxRetries THEN retried \cup {node[t]} ELSE retried
    /\ UNCHANGED <<heap, list, allocBy, dropDepth>>
    /\ UNCHANGED iterVars

\* a retry that refreshes the expected head but keeps the link made before
\* the loop
CasErrNoRelink(t) ==
    /\ current' = [current EXCEPT ![t] = head]
    /\ fails' = [fails EXCEPT ![t] = Min(@ + 1, MaxRetries)]
    /\ UNCHANGED <<head, heap, pc, node, list, retried, allocBy, linked, pushed, dropDepth>>
    /\ UNCHANGED iterVars

\* a retry that relinks the node to the head found but keeps the old
\* expected value
CasErrKeepExpected(t) ==
    /\ heap' = replace_forget(heap, node[t], head)
    /\ fails' = [fails EXCEPT ![t] = Min(@ + 1, MaxRetries)]
    /\ UNCHANGED <<head, pc, node, current, list, retried, allocBy, linked, pushed, dropDepth>>
    /\ UNCHANGED iterVars

\* a retry that builds a new node for every attempt
CasErrRealloc(t) ==
    /\ heap' = replace_forget(Append(heap, NewNode(heap[node[t]].value)),
                              Len(heap) + 1, head)
    /\ allocBy' = Append(allocBy, t)
    /\ node' = [node EXCEPT ![t] = Len(heap) + 1]
    /\ current' = [current EXCEPT ![t] = head]
    /\ fails' = [fails EXCEPT ![t] = Min(@ + 1, MaxRetries)]
    /\ UNCHANGED <<head, pc, list, retried, linked, pushed, dropDepth>>
    /\ UNCHANGED iterVars

\* lines 76 and 70: Err(p) => current = p, where p is the head the CAS found,
\* and the next iteration links the same node to it
CasErr(t) ==
    /\ current' = [current EXCEPT ![t] = head]
    /\ heap' = replace_forget(heap, node[t], head)
    /\ fails' = [fails EXCEPT ![t] = Min(@ + 1, MaxRetries)]
    /\ UNCHANGED <<head, pc, node, list, retried, allocBy, linked, pushed, dropDepth>>
    /\ UNCHANGED iterVars

\* compare_exchange_weak fails because head is not the expected value
CasContended(t) ==
    /\ pc[t] = "cas"
    /\ head # current[t]
    /\ CasErr(t)

\* compare_exchange_weak fails although head is the expected value
CasSpurious(t) ==
    /\ pc[t] = "cas"
    /\ head = current[t]
    /\ CasErr(t)

\* ---- Drop for AtomicList ------------------------------------------------

\* lines 84-85, for a list whose head is hd: p = swap(null), then from_raw(p)
\* is dropped at the end of the statement
drop_AtomicList(hd, h) == drop_NodePtr(hd, h, 0)

\* the list is discarded: needs &mut self, so no push is in flight
DropList ==
    /\ list = "shared"
    /\ \A t \in Threads : pc[t] = "idle"
    /\ LET r == drop_AtomicList(head, heap)
       IN  /\ heap' = r.heap
           /\ dropDepth' = Max(dropDepth, r.depth)
    /\ head' = Null
    /\ list' = "dropped"
    /\ UNCHANGED <<fails, retried, allocBy, linked, pushed>>
    /\ UNCHANGED pushVars
    /\ UNCHANGED iterVars

\* ---- IntoIterator for AtomicList ----------------------------------------

\* an into_iter that takes &self: pushes may still be in flight
IntoIterShared ==
    /\ list = "shared"
    /\ it' = head
    /\ iter' = "live"
    /\ snapshot' = Chain(head, heap)
    /\ LET r == drop_AtomicList(Null, heap)
       IN  /\ heap' = r.heap
           /\ dropDepth' = Max(dropDepth, r.depth)
    /\ head' = Null
    /\ list' = "consumed"
    /\ UNCHANGED <<fails, retried, allocBy, linked, pushed, yielded, nones>>
    /\ UNCHANGED pushVars

\* an into_iter that loads head in place of swapping it: the Drop of `self`
\* finds the chain still attached
IntoIterLoad ==
    /\ list = "shared"
    /\ \A t \in Threads : pc[t] = "idle"
    /\ it' = head
    /\ iter' = "live"
    /\ snapshot' = Chain(head, heap)
    /\ LET r == drop_AtomicList(head, heap)
       IN  /\ heap' = r.heap
           /\ dropDepth' = Max(dropDepth, r.depth)
    /\ head' = Null
    /\ list' = "consumed"
    /\ UNCHANGED <<fails, retried, allocBy, linked, pushed, yielded, nones>>
    /\ UNCHANGED pushVars

\* lines 93-96: swap head to null, wrap the old head; `self` goes out of scope
\* at the closing brace, which runs Drop for AtomicList on the emptied list
IntoIter ==
    /\ list = "shared"
    /\ \A t \in Threads : pc[t] = "idle"
    /\ it' = head
    /\ iter' = "live"
    /\ snapshot' = Chain(head, heap)
    /\ LET r == drop_AtomicList(Null, heap)
       IN  /\ heap' = r.heap
           /\ dropDepth' = Max(dropDepth, r.depth)
    /\ head' = Null
    /\ list' = "consumed"
    /\ UNCHANGED <<fails, retried, allocBy, linked, pushed, yielded, nones>>
    /\ UNCHANGED pushVars

\* ---- AtomicListIterator::next -------------------------------------------

\* a next() that returns the value and never stores the new cursor
NextSomeNoStore ==
    /\ iter = "live"
    /\ it # Null
    /\ yielded' = Append(yielded, [node |-> it, value |-> heap[it].value])
    /\ heap' = Dealloc(heap, it)
    /\ dropDepth' = Max(dropDepth, 1)
    /\ UNCHANGED <<head, list, it, iter, snapshot, nones, fails, retried, allocBy, linked, pushed>>
    /\ UNCHANGED pushVars

\* a next() that lets the `next` link go out of scope: the rest of the chain
\* is dropped with the node
NextSomeDropRest ==
    /\ iter = "live"
    /\ it # Null
    /\ yielded' = Append(yielded, [node |-> it, value |-> heap[it].value])
    /\ it' = heap[it].next
    /\ heap' = drop_NodePtr(it, heap, 0).heap
    /\ dropDepth' = Max(dropDepth, 1)
    /\ UNCHANGED <<head, list, iter, snapshot, nones, fails, retried, allocBy, linked, pushed>>
    /\ UNCHANGED pushVars

\* lines 106-113 with a non-null cursor: the node is moved out of its box
\* (which frees the box), its next link becomes the cursor, its value is returned
NextSome ==
    /\ iter = "live"
    /\ it # Null
    /\ yielded' = Append(yielded, [node |-> it, value |-> heap[it].value])
    /\ it' = heap[it].next
    /\ heap' = Dealloc(heap, it)
    /\ dropDepth' = Max(dropDepth, 1)
    /\ UNCHANGED <<head, list, iter, snapshot, nones, fails, retried, allocBy, linked, pushed>>
    /\ UNCHANGED pushVars

\* lines 106-107 with a null cursor: from_raw gives None and map returns None
NextNone ==
    /\ iter = "live"
    /\ it = Null
    /\ nones < MaxNoneCalls
    /\ nones' = nones + 1
    /\ UNCHANGED <<head, heap, list, it, iter, snapshot, yielded, fails,
                   retried, allocBy, linked, pushed, dropDepth>>
    /\ UNCHANGED pushVars

\* the iterator value is discarded; AtomicListIterator has no Drop impl and
\* AtomicPtr frees nothing
DropIter ==
    /\ iter = "live"
    /\ iter' = "dropped"
    /\ UNCHANGED <<head, heap, list, it, snapshot, yielded, nones, fails,
                   retried, allocBy, linked, pushed, dropDepth>>
    /\ UNCHANGED pushVars

\* ---- specification ------------------------------------------------------
Next ==
    \/ \E t \in Threads, v \in Values : PushStart(t, v)
    \/ \E t \in Threads : CasOk(t)
    \/ \E t \in Threads : CasContended(t)
    \/ \E t \in Threads : CasSpurious(t)
    \/ DropList
    \/ IntoIter
    \/ NextSome
    \/ NextNone
    \/ DropIter

Spec == Init /\ [][Next]_vars

\* ---- scheduling --------------------------------------------------------

\* The element type is opaque to the list: progress does not depend on the
\* values, so the specifications with fairness push one value only.
NextOneValue ==
    \/ \E t \in Threads : PushStart(t, 1)
    \/ \E t \in Threads : CasOk(t)
    \/ \E t \in Threads : CasContended(t)
    \/ \E t \in Threads : CasSpurious(t)
    \/ DropList
    \/ IntoIter
    \/ NextSome
    \/ NextNone
    \/ DropIter

\* A thread inside the retry loop keeps executing it (there is no lock, sleep
\* or yield in lines 69-78), and compare_exchange_weak does not fail for ever
\* while head keeps being the expected value.
FairPush(t) == WF_vars(CasContended(t)) /\ SF_vars(CasOk(t))

\* every thread is scheduled fairly
FairSpec == Init /\ [][NextOneValue]_vars /\ \A t \in Threads : FairPush(t)

\* a thread is halted for good inside the retry loop, keeping its handle
Stop(t) ==
    /\ pc[t] = "cas"
    /\ pc' = [pc EXCEPT ![t] = "stopped"]
    /\ UNCHANGED <<head, heap, node, current, list, fails, retried, allocBy,
                   linked, pushed, dropDepth>>
    /\ UNCHANGED iterVars

NextWithStop ==
    \/ NextOneValue
    \/ \E t \in Threads : Stop(t)

\* threads may halt at any point of the loop; those that run are fair
LockFreeSpec == Init /\ [][NextWithStop]_vars /\ \A t \in Threads : FairPush(t)


\* ---- properties ---------------------------------------------------------

\* the drained sequence has been read to its end
Exhausted == iter = "live" /\ it = Null

YieldedValues == [i \in 1..Len(yielded) |-> yielded[i].value]

RECURSIVE SumOver(_, _)
SumOver(f, S) ==
    IF S = {} THEN 0
    ELSE LET x == CHOOSE y \in S : TRUE IN f[x] + SumOver(f, S \ {x})

PushCount == SumOver([t \in Threads |-> Len(pushed[t])], Threads)
PushCountOf(v) == SumOver([t \in Threads |-> Count(v, pushed[t])], Threads)

\* C1: once every push has returned and the list has been drained to the end,
\* the drain has yielded as many values as pushes returned, and each value as
\* often as it was pushed: nothing is missing and nothing is duplicated.
C1_MultisetPreserved ==
    Exhausted =>
        /\ Len(yielded) = PushCount
        /\ \A v \in Values : Count(v, YieldedValues) = PushCountOf(v)

\* every thread pushed, all values differ, one push was retried, all drained
C1_Witness ==
    /\ Exhausted
    /\ \A t \in Threads : Len(pushed[t]) >= 1
    /\ \A i, j \in 1..Len(yielded) : i # j => yielded[i].value # yielded[j].value
    /\ retried # {}

\* C2: when a single thread has pushed v1, ..., vn onto a new list, the drain
\* yields vn, ..., v1.
C2_ReverseOnDrain ==
    \A t \in Threads :
        (Exhausted /\ \A u \in Threads \ {t} : pushed[u] = <<>>)
            => YieldedValues = Reverse(pushed[t])

\* one thread pushed three values, not all equal, and drained them
C2_Witness ==
    /\ Exhausted
    /\ Len(pushed[1]) = 3
    /\ pushed[1][1] # pushed[1][3]
    /\ \A u \in Threads \ {1} : pushed[u] = <<>>
    /\ Len(yielded) = 3

\* C3: a push that was linked after its CAS had failed MaxRetries times or
\* more is in the chain exactly once while the list is shared, and a drain
\* read to its end has yielded its node exactly once.
C3_NoLossUnderRetry ==
    \A n \in retried :
        /\ list = "shared" => Count(n, Chain(head, heap)) = 1
        /\ Exhausted => Count(n, [i \in 1..Len(yielded) |-> yielded[i].node]) = 1

\* a retried push and another push were both drained
C3_Witness ==
    /\ Exhausted
    /\ retried # {}
    /\ Len(yielded) >= 2

\* C4: teardown frees one node per loop iteration, so the nesting of drop
\* calls stays within one level whatever the chain length.
C4_TeardownIterative == list = "dropped" => dropDepth <= 1

\* a push of thread t is inside its retry loop and t is running
InLoop(t) == pc[t] = "cas"

\* C5: whenever a thread is inside the retry loop of push, a push call
\* returns later on unless every thread inside the loop halts; threads that
\* have halted inside their loop do not prevent it.
C5_LockFree ==
    \A k \in 0..MaxNodes :
        ((\E t \in Threads : InLoop(t)) /\ PushCount = k)
            ~> (PushCount > k \/ ~ \E t \in Threads : InLoop(t))

\* a push returned while another thread was halted inside its retry loop
C5_Witness ==
    /\ \E t \in Threads : pc[t] = "stopped"
    /\ \E t \in Threads : pc[t] = "idle" /\ Len(pushed[t]) >= 1 /\ allocBy[head] = t
    /\ \E n \in retried : n = head

\* nodes whose push has returned
Returned == {n \in 1..Len(heap) : \A t \in Threads : node[t] # n}
InChain(n) == Count(n, Chain(head, heap)) >= 1

\* C6: under fair scheduling every push call returns; the node of a returned
\* push is reachable from head, and stays so until the list is drained or
\* dropped.
C6_PushCompletes ==
    /\ \A t \in Threads : InLoop(t) ~> (pc[t] = "idle")
    /\ [](list = "shared" => \A n \in Returned : InChain(n))
    /\ [][\A n \in 1..Len(heap) :
            (list = "shared" /\ InChain(n) /\ list' = "shared") => InChain(n)']_vars

\* a push that met contention has returned, other pushes were linked after it
C6_Witness ==
    /\ list = "shared"
    /\ \E n \in retried : InChain(n) /\ n # head
    /\ \A t \in Threads : pc[t] = "idle"
    /\ \A t \in Threads : Len(pushed[t]) >= 1

\* C7 helper: thread t's compare_exchange_weak fails in this step
CasFails(t) ==
    /\ pc[t] = "cas"
    /\ pc'[t] = "cas"
    /\ fails'[t] # fails[t] \/ current'[t] # current[t]

\* C7 as stated: whenever the CAS of a push fails, head differs from the
\* expected value.
C7_FailMeansRaceLost ==
    [][\A t \in Threads : CasFails(t) => head # current[t]]_vars

\* C7 amended: when the CAS of a push fails, the value handed back is the
\* current head and head is unchanged; head differs from the expected value
\* only when it is a node linked by another thread's push (otherwise the weak
\* CAS failed spuriously).
C7_FailHandsBackHead ==
    [][\A t \in Threads : CasFails(t) =>
            /\ current'[t] = head
            /\ head' = head
            /\ head # current[t] => (head # Null /\ allocBy[head] # t)]_vars

\* a push in flight whose expected head was refreshed to another thread's node
C7_Witness ==
    \E t \in Threads :
        /\ pc[t] = "cas"
        /\ fails[t] >= 1
        /\ current[t] # Null
        /\ allocBy[current[t]] # t

\* C8: next() never yields more elements than the chain held at the drain;
\* once it has returned None the cursor is null, so every later call returns
\* None, nothing is yielded again, and the number of elements yielded equals
\* the chain length at the drain.
C8_DrainExhaustive ==
    /\ [](Len(yielded) <= Len(snapshot))
    /\ [](nones > 0 => it = Null /\ Len(yielded) = Len(snapshot))
    /\ [][nones > 0 => yielded' = yielded]_vars

\* a chain of two or more nodes was drained and next() returned None repeatedly
C8_Witness ==
    /\ nones >= 2
    /\ Len(snapshot) >= 2
    /\ Len(yielded) = Len(snapshot)

\* C9: draining a new list onto which nothing was pushed gives an empty
\* sequence: the cursor is null, so the first next() returns None, and no
\* element is yielded.
C9_EmptyDrain ==
    (iter # "none" /\ allocBy = <<>>)
        => it = Null /\ snapshot = <<>> /\ yielded = <<>>

\* next() was called on the drain of a new list
C9_Witness == iter = "live" /\ allocBy = <<>> /\ nones >= 1

YieldedNodes == [i \in 1..Len(yielded) |-> yielded[i].node]

IsPrefix(s, r) == Len(s) <= Len(r) /\ \A i \in 1..Len(s) : s[i] = r[i]

\* C11: from into_iter() on, head is null, and the detached chain is the
\* nodes whose CAS had succeeded by then, last first: no CAS succeeds on the
\* list afterwards.  The sequence yields the nodes of that chain from its head
\* on, every one of them once it is read to its end, and no other node.
C11_DrainSnapshot ==
    iter # "none" =>
        /\ head = Null
        /\ snapshot = Reverse(linked)
        /\ IsPrefix(YieldedNodes, snapshot)
        /\ Exhausted => YieldedNodes = snapshot

\* a chain built by pushes of several threads was detached and read in part
C11_Witness ==
    /\ iter = "live"
    /\ Len(snapshot) >= 2
    /\ \E i, j \in 1..Len(snapshot) : allocBy[snapshot[i]] # allocBy[snapshot[j]]
    /\ Len(yielded) = 1

\* C12: the chain is at every moment the reverse of the order in which the
\* CAS of the pushes succeeded, and so is the drained sequence; of two values
\* pushed by the same thread the one pushed later is yielded first.
C12_ReverseCasOrder ==
    /\ list = "shared" => Chain(head, heap) = Reverse(linked)
    /\ Exhausted => YieldedNodes = Reverse(linked)
    /\ \A i, j \in 1..Len(yielded) :
        (i < j /\ allocBy[yielded[i].node] = allocBy[yielded[j].node])
            => yielded[i].node > yielded[j].node

\* pushes of two threads, one of them pushing twice and one push retried,
\* were drained
C12_Witness ==
    /\ Exhausted
    /\ Len(yielded) >= 3
    /\ retried # {}
    /\ \E i, j \in 1..Len(yielded) : allocBy[yielded[i].node] # allocBy[yielded[j].node]

\* C13 helper: thread t's compare_exchange_weak succeeds in this step
CasSucceeds(t) == pc[t] = "cas" /\ pc'[t] = "idle"

\* C13: when the CAS of a push succeeds, the new node's link is the head
\* being replaced, and the chain afterwards is the new node followed by the
\* chain as it was.
C13_PrependsOne ==
    [][\A t \in Threads : CasSucceeds(t) =>
            /\ heap[node[t]].next = head
            /\ head' = node[t]
            /\ Chain(head', heap') = <<node[t]>> \o Chain(head, heap)]_vars

\* a push that lost a race to another thread was then linked in front of
\* that thread's node
C13_Witness ==
    /\ list = "shared"
    /\ head \in retried
    /\ heap[head].next # Null
    /\ allocBy[heap[head].next] # allocBy[head]


Addrs == 1..Len(heap)
Live(n) == heap[n].frees = 0
NoRepeat(s) == \A i, j \in 1..Len(s) : i # j => s[i] # s[j]

\* C14: head is null or the address of an allocated node, and the walk from
\* head along the next links ends at null without meeting a node twice.
C14_ChainAcyclic ==
    /\ head = Null \/ (head \in Addrs /\ Live(head))
    /\ LET walk == ChainFrom(head, heap, Len(heap) + 1)
       IN  Len(walk) <= Len(heap) /\ NoRepeat(walk)

\* three pushes of two threads, one of them retried, are linked
C14_Witness ==
    /\ list = "shared"
    /\ Len(Chain(head, heap)) >= 3
    /\ retried # {}
    /\ \E t \in Threads : t # 1 /\ Len(pushed[t]) >= 1

\* the links that point to node n: head, the iterator's cursor, the local
\* Box of a push, and the next link of a node m that satisfies From(m)
Links(n, From(_)) ==
    (IF head = n THEN 1 ELSE 0)
    + (IF iter = "live" /\ it = n THEN 1 ELSE 0)
    + Cardinality({t \in Threads : node[t] = n})
    + Cardinality({m \in Addrs : Live(m) /\ From(m) /\ heap[m].next = n})

AnyNode(m) == TRUE
IsLinked(m) == Count(m, linked) >= 1

C16_NoFreeWhileShared ==
    /\ [](list = "shared" => \A n \in Addrs : Live(n))
    /\ [][(\E n \in Addrs : heap'[n].frees # heap[n].frees) =>
            /\ head' = Null
            /\ \/ list = "shared" /\ list' = "dropped"
               \/ list = "consumed" /\ iter = "live" /\ Len(yielded') = Len(yielded) + 1]_vars

\* a push was retried on a list that already held a node, and was linked
C16_Witness ==
    /\ list = "shared"
    /\ \E n \in retried : InChain(n) /\ heap[n].next # Null


\* C17: a failed CAS leaves head and every node but the thread's own as they
\* were and keeps the thread on the same node, whose value is untouched; only
\* the thread's expected head and its own node's link are refreshed.  Every
\* push call thus allocates one node: the nodes allocated are as many as the
\* pushes returned plus the pushes in flight.
C17_FailedCasFrame ==
    /\ [](Len(heap) = PushCount + Cardinality({t \in Threads : pc[t] # "idle"}))
    /\ [][\A t \in Threads : CasFails(t) =>
            /\ head' = head
            /\ node' = node
            /\ Len(heap') = Len(heap)
            /\ \A n \in Addrs \ {node[t]} : heap'[n] = heap[n]
            /\ heap'[node[t]].value = heap[node[t]].value
            /\ heap'[node[t]].frees = heap[node[t]].frees
            /\ \A u \in Threads \ {t} : current'[u] = current[u]]_vars

\* a push that has failed MaxRetries times or more is still on its one node
\* while another thread's node is at the head
C17_Witness ==
    \E t \in Threads :
        /\ pc[t] = "cas"
        /\ fails[t] = MaxRetries
        /\ head # Null
        /\ allocBy[head] # t
        /\ Len(heap) = PushCount + Cardinality({u \in Threads : pc[u] # "idle"})

\* C18: a next() that yields takes the node under the cursor: it returns that
\* node's value, deallocates that node and no other, and moves the cursor to
\* that node's next link.  The nodes yielded so far followed by the chain
\* under the cursor are the chain detached by into_iter.
C18_NextTakesOne ==
    /\ [](iter = "live" => YieldedNodes \o Chain(it, heap) = snapshot)
    /\ [][yielded' # yielded =>
            /\ it # Null
            /\ Live(it)
            /\ yielded' = Append(yielded, [node |-> it, value |-> heap[it].value])
            /\ it' = heap[it].next
            /\ heap' = [heap EXCEPT ![it].frees = 1]]_vars

\* two nodes were yielded and a third is under the cursor
C18_Witness ==
    /\ iter = "live"
    /\ Len(yielded) = 2
    /\ it # Null

\* C19: once the list has been dropped, or drained and the drained sequence
\* discarded, every node that a push allocated has been deallocated.
C19_AllReleased ==
    (list = "dropped" \/ iter = "dropped") => \A n \in Addrs : heap[n].frees = 1

\* C20: into_iter() leaves head null and the Drop of the consumed list
\* deallocates nothing; no node is ever deallocated twice, and after the
\* drain the deallocated nodes are exactly those that next() has yielded.
C20_NoDoubleFree ==
    /\ [](\A n \in Addrs : heap[n].frees <= 1)
    /\ [](iter # "none" =>
            \A n \in Addrs : heap[n].frees = 1 <=> Count(n, YieldedNodes) = 1)
    /\ [][(list = "shared" /\ list' = "consumed") =>
            (head' = Null /\ heap' = heap)]_vars

\* a chain of several nodes was drained to its end after the consumed list
\* was dropped
C20_Witness ==
    /\ list = "consumed"
    /\ Exhausted
    /\ Len(snapshot) >= 2
    /\ \A n \in Addrs : heap[n].frees = 1

====
